---- MODULE Spec2Model ----
(***************************************************************************)
(* The 2D particle simulation engine of src/wasm/src/lib.rs (Particle and  *)
(* ParticleSystem), as a state machine.                                    *)
(*                                                                         *)
(* Numbers: the engine computes in f32.  The model computes in fixed point *)
(* with Scale units to 1.0, every multiplication, division and square root *)
(* rounded to the nearest unit (ties away from zero), as f32 rounds every  *)
(* operation to the nearest representable value.  Only finite values are   *)
(* modelled.                                                               *)
(***************************************************************************)
EXTENDS Integers, Sequences, FiniteSets, TLC

\* ------------------------------------------------------------ bounds
\* Public calls made on one system in one run.
MaxCalls == 3
\* Particles held at once (add_particle is not offered beyond it).
MaxParticles == 2
\* Slack, in units of 1/Scale, granted to an equality between two rounded
\* computations of the same real quantity.  A component of the collision
\* normal is resolved to one unit in Scale, and it multiplies separations and
\* impulses of up to 6.5 and 20 (6500 and 20000 units) here, so that two
\* such computations agree to about twenty units, not to the last one.
Tol == 24

\* ------------------------------------------------------------ f32 arithmetic
\* Units to 1.0.
Scale == 1000

Abs(a) == IF a < 0 THEN -a ELSE a

Sign(a) == IF a < 0 THEN -1 ELSE 1

\* n / d for n >= 0, d > 0, rounded to the nearest integer.
RoundDiv(n, d) == (n + d \div 2) \div d

\* a * b, rounded.  |a| is split as q * Scale + r so that no intermediate
\* product leaves the 32-bit integers of TLC.
FMul(a, b) ==
    LET ma == Abs(a)
        mb == Abs(b)
        q  == ma \div Scale
        r  == ma % Scale
    IN  Sign(a) * Sign(b) * (q * mb + RoundDiv(r * mb, Scale))

\* a / b for b # 0, rounded.
FDiv(a, b) == Sign(a) * Sign(b) * RoundDiv(Abs(a) * Scale, Abs(b))

\* a * b <= x * Scale for a, b, x >= 0, without forming either product:
\* with a = q * Scale + r it is r * b <= (x - q * b) * Scale, decided early
\* when q * b exceeds x or x - q * b reaches b.
LeProd(a, b, x) ==
    LET q == a \div Scale
        r == a % Scale
    IN  IF q > 0 /\ b > x \div q THEN FALSE
        ELSE LET t == x - q * b
             IN  IF t >= b THEN TRUE ELSE r * b <= t * Scale

\* The largest d in lo..hi with d * d <= x * Scale (lo always qualifies).
RECURSIVE SqrtSearch(_, _, _)
SqrtSearch(x, lo, hi) ==
    IF lo >= hi THEN lo
    ELSE LET mid == (lo + hi + 1) \div 2
         IN  IF LeProd(mid, mid, x) THEN SqrtSearch(x, mid, hi)
             ELSE SqrtSearch(x, lo, mid - 1)

\* a * b < x * Scale for a, x >= 0 and b > 0, decided the same way.
LtProd(a, b, x) ==
    LET q == a \div Scale
        r == a % Scale
    IN  IF q > 0 /\ b > x \div q THEN FALSE
        ELSE LET t == x - q * b
             IN  IF t >= b THEN TRUE ELSE r * b < t * Scale

\* sqrt(x) for x >= 0, rounded: with f the floor of the root of x * Scale,
\* f + 1 is the nearer integer exactly when f * (f + 1) < x * Scale.
FSqrt(x) ==
    LET f == SqrtSearch(x, 0, x + Scale)
    IN  IF LtProd(f, f + 1, x) THEN f + 1 ELSE f

FMax(a, b) == IF a >= b THEN a ELSE b

FMin(a, b) == IF a <= b THEN a ELSE b

\* ------------------------------------------------------------ Particle
\* color: 0xFFFFFF.
White == 16777215

\* Particle::new
NewParticle(x, y, vx, vy, radius, mass) ==
    [x |-> x, y |-> y, vx |-> vx, vy |-> vy,
     radius |-> radius, mass |-> mass, color |-> White]

\* ------------------------------------------------------------ inputs
\* Values are written in units of 1/Scale: 5000 is 5.0.

\* new(width, height): each dimension is one of these.
NewSizes == {60000, 120000}

\* add_particle(x, y, vx, vy, radius, mass): two overlapping disks at rest
\* against the left wall, one moving freely, one placed outside the world.
AddInputs ==
    { <<5000, 50000, 0, 0, 5000, 1000>>,
      <<8000, 50000, 0, 0, 5000, 1000>>,
      <<60000, 40000, 10000, -20000, 5000, 2000>>,
      <<130000, 119000, 30000, 40000, 5000, 1000>> }

\* set_gravity(x, y)
GravityInputs == { <<0, 0>>, <<-20000, 50000>> }

\* set_damping(damping), set_restitution(restitution): below, inside and
\* above [0, 1].
UnitInputs == { -1000, 500, 5000 }

\* set_time_step(dt): below, inside and above [0.001, 0.1].
TimeStepInputs == { 0, 50, 5000 }

\* set_bounds(width, height)
BoundsInputs == { <<10000, 10000>>, <<150000, 90000>> }

\* index of the index-addressed mutators: in range and out of range.
IndexInputs == 0 .. MaxParticles

\* (x, y) of set_particle_position, (vx, vy) of set_particle_velocity and
\* (fx, fy) of add_force_to_particle.
VectorInputs == { <<30000, 70000>>, <<-4000, 6000>> }

\* update(dt): non-positive, inside and above the range of time_step.
DtInputs == { 0, -1000, 50, 500 }

\* ------------------------------------------------------------ state
VARIABLES
    particles,      \* Vec<Particle>, index 0 of the code at position 1
    width, height,
    gravity_x, gravity_y,
    damping, restitution, time_step,
    pc,             \* "idle", or the loop of update that runs next
    actual_dt,      \* update's local
    i, j,           \* the loop positions of update and handle_collisions
    entry,          \* particles as they were when update was entered
    branch,         \* what the last pair of handle_collisions went through
    last,           \* the last public call: its name, arguments and result
    calls           \* public calls made so far

params == <<width, height, gravity_x, gravity_y, damping, restitution, time_step>>

locals == <<pc, actual_dt, i, j, entry, branch>>

vars == <<particles, params, locals, last, calls>>

\* ParticleSystem::new
New(w, h) ==
    /\ particles = << >>
    /\ width = w
    /\ height = h
    /\ gravity_x = 0
    /\ gravity_y = FMul(9810, 10000)
    /\ damping = 990
    /\ restitution = 800
    /\ time_step = FDiv(1000, 60000)

Idle ==
    /\ pc = "idle"
    /\ actual_dt = 0
    /\ i = 0
    /\ j = 0
    /\ entry = << >>
    /\ branch = "none"

Init ==
    /\ \E w \in NewSizes, h \in NewSizes : New(w, h)
    /\ Idle
    /\ last = [op |-> "new", args |-> << >>, ret |-> 0]
    /\ calls = 0

\* A public call is made on a system that is not inside update: the engine
\* is single-threaded and update runs to completion.
Call(op, args, ret) ==
    /\ pc = "idle"
    /\ calls < MaxCalls
    /\ calls' = calls + 1
    /\ last' = [op |-> op, args |-> args, ret |-> ret]

\* ParticleSystem::get_particle_count
get_particle_count == Len(particles)

\* ParticleSystem::get_bounds
get_bounds == <<0, 0, width, height>>

\* ParticleSystem::get_colors
get_colors == [n \in 1 .. Len(particles) |-> particles[n].color]

\* add_particle returning the length after the push.
add_particle_returns_len(x, y, vx, vy, radius, mass) ==
    /\ Len(particles) < MaxParticles
    /\ Call("add_particle", <<x, y, vx, vy, radius, mass>>, Len(particles) + 1)
    /\ particles' = Append(particles, NewParticle(x, y, vx, vy, radius, mass))
    /\ UNCHANGED <<params, locals>>

\* ParticleSystem::add_particle
add_particle(x, y, vx, vy, radius, mass) ==
    /\ Len(particles) < MaxParticles
    /\ Call("add_particle", <<x, y, vx, vy, radius, mass>>, Len(particles))
    /\ particles' = Append(particles, NewParticle(x, y, vx, vy, radius, mass))
    /\ UNCHANGED <<params, locals>>

\* ParticleSystem::set_gravity
set_gravity(x, y) ==
    /\ Call("set_gravity", <<x, y>>, 0)
    /\ gravity_x' = x
    /\ gravity_y' = y
    /\ UNCHANGED <<particles, width, height, damping, restitution, time_step, locals>>

\* set_damping storing its argument as given.
set_damping_unclamped(d) ==
    /\ Call("set_damping", <<d>>, 0)
    /\ damping' = d
    /\ UNCHANGED <<particles, width, height, gravity_x, gravity_y, restitution, time_step, locals>>

\* ParticleSystem::set_damping
set_damping(d) ==
    /\ Call("set_damping", <<d>>, 0)
    /\ damping' = FMin(FMax(d, 0), Scale)
    /\ UNCHANGED <<particles, width, height, gravity_x, gravity_y, restitution, time_step, locals>>

\* ParticleSystem::set_restitution
set_restitution(r) ==
    /\ Call("set_restitution", <<r>>, 0)
    /\ restitution' = FMin(FMax(r, 0), Scale)
    /\ UNCHANGED <<particles, width, height, gravity_x, gravity_y, damping, time_step, locals>>

\* ParticleSystem::set_time_step
set_time_step(dt) ==
    /\ Call("set_time_step", <<dt>>, 0)
    /\ time_step' = FMin(FMax(dt, 1), 100)
    /\ UNCHANGED <<particles, width, height, gravity_x, gravity_y, damping, restitution, locals>>

\* ParticleSystem::set_bounds
set_bounds(w, h) ==
    /\ Call("set_bounds", <<w, h>>, 0)
    /\ width' = FMax(w, 100000)
    /\ height' = FMax(h, 100000)
    /\ UNCHANGED <<particles, gravity_x, gravity_y, damping, restitution, time_step, locals>>

\* set_particle_position taking index <= len for in range and writing the
\* last particle then.
set_particle_position_off_by_one(index, x, y) ==
    /\ Call("set_particle_position", <<index, x, y>>, 0)
    /\ particles' =
         IF index <= Len(particles) /\ Len(particles) > 0
         THEN LET n == IF index < Len(particles) THEN index + 1 ELSE Len(particles)
              IN  [particles EXCEPT ![n].x = x, ![n].y = y]
         ELSE particles
    /\ UNCHANGED <<params, locals>>

\* ParticleSystem::set_particle_position
set_particle_position(index, x, y) ==
    /\ Call("set_particle_position", <<index, x, y>>, 0)
    /\ particles' = IF index < Len(particles)
                     THEN [particles EXCEPT ![index + 1].x = x, ![index + 1].y = y]
                     ELSE particles
    /\ UNCHANGED <<params, locals>>

\* set_particle_velocity writing the color of the particle too.
set_particle_velocity_recolors(index, vx, vy) ==
    /\ Call("set_particle_velocity", <<index, vx, vy>>, 0)
    /\ particles' = IF index < Len(particles)
                    THEN [particles EXCEPT ![index + 1].vx = vx,
                                           ![index + 1].vy = vy,
                                           ![index + 1].color = 0]
                    ELSE particles
    /\ UNCHANGED <<params, locals>>

\* ParticleSystem::set_particle_velocity
set_particle_velocity(index, vx, vy) ==
    /\ Call("set_particle_velocity", <<index, vx, vy>>, 0)
    /\ particles' = IF index < Len(particles)
                     THEN [particles EXCEPT ![index + 1].vx = vx, ![index + 1].vy = vy]
                     ELSE particles
    /\ UNCHANGED <<params, locals>>

\* add_force_to_particle scaling by the step of the most recent update.
add_force_to_particle_recent_dt(index, fx, fy) ==
    /\ Call("add_force_to_particle", <<index, fx, fy>>, 0)
    /\ particles' =
          IF index < Len(particles)
          THEN LET particle == particles[index + 1]
                   ax == FDiv(fx, particle.mass)
                   ay == FDiv(fy, particle.mass)
                   dt == IF actual_dt > 0 THEN actual_dt ELSE time_step
               IN  [particles EXCEPT
                      ![index + 1].vx = particle.vx + FMul(ax, dt),
                      ![index + 1].vy = particle.vy + FMul(ay, dt)]
          ELSE particles
    /\ UNCHANGED <<params, locals>>

\* ParticleSystem::add_force_to_particle
add_force_to_particle(index, fx, fy) ==
    /\ Call("add_force_to_particle", <<index, fx, fy>>, 0)
    /\ particles' =
         IF index < Len(particles)
         THEN LET particle == particles[index + 1]
                  ax == FDiv(fx, particle.mass)
                  ay == FDiv(fy, particle.mass)
              IN  [particles EXCEPT
                     ![index + 1].vx = particle.vx + FMul(ax, time_step),
                     ![index + 1].vy = particle.vy + FMul(ay, time_step)]
         ELSE particles
    /\ UNCHANGED <<params, locals>>

\* ParticleSystem::clear_particles
clear_particles ==
    /\ Call("clear_particles", << >>, 0)
    /\ particles' = << >>
    /\ UNCHANGED <<params, locals>>

\* The integration with damping applied before gravity is added.
IntegrateDampingFirst(particle, dt) ==
    LET vx == FMul(particle.vx, damping) + FMul(gravity_x, dt)
        vy == FMul(particle.vy, damping) + FMul(gravity_y, dt)
    IN  [particle EXCEPT !.vx = vx, !.vy = vy,
                         !.x = particle.x + FMul(vx, dt),
                         !.y = particle.y + FMul(vy, dt)]

\* ------------------------------------------------------------ update
\* update, "Apply forces and integrate": the body of the first loop.
Integrate(particle, dt) ==
    LET vx == FMul(particle.vx + FMul(gravity_x, dt), damping)
        vy == FMul(particle.vy + FMul(gravity_y, dt), damping)
    IN  [particle EXCEPT !.vx = vx, !.vy = vy,
                         !.x = particle.x + FMul(vx, dt),
                         !.y = particle.y + FMul(vy, dt)]

\* update, "Left and right boundaries".
BoundaryX(particle) ==
    IF particle.x - particle.radius < 0
    THEN [particle EXCEPT !.x = particle.radius,
                          !.vx = FMul(-particle.vx, restitution)]
    ELSE IF particle.x + particle.radius > width
    THEN [particle EXCEPT !.x = width - particle.radius,
                          !.vx = FMul(-particle.vx, restitution)]
    ELSE particle

\* update, "Top and bottom boundaries".
BoundaryY(particle) ==
    IF particle.y - particle.radius < 0
    THEN [particle EXCEPT !.y = particle.radius,
                          !.vy = FMul(-particle.vy, restitution)]
    ELSE IF particle.y + particle.radius > height
    THEN [particle EXCEPT !.y = height - particle.radius,
                          !.vy = FMul(-particle.vy, restitution)]
    ELSE particle

\* update, "Handle boundary collisions": the body of the second loop.
Boundary(particle) == BoundaryY(BoundaryX(particle))

\* handle_collisions: the distance between the centers of p1 and p2.
Distance(p1, p2) ==
    LET dx == p2.x - p1.x
        dy == p2.y - p1.y
    IN  FSqrt(FMul(dx, dx) + FMul(dy, dy))

\* The test of the pair without its upper limit: any two particles whose
\* centers differ are resolved.
CollidingAtAnyDistance(p1, p2) == Distance(p1, p2) > 0

\* handle_collisions: distance < min_distance && distance > 0.0
Colliding(p1, p2) ==
    /\ Distance(p1, p2) < p1.radius + p2.radius
    /\ Distance(p1, p2) > 0

\* handle_collisions: the collision normal (nx, ny) of a colliding pair.
Normal(p1, p2) ==
    <<FDiv(p2.x - p1.x, Distance(p1, p2)), FDiv(p2.y - p1.y, Distance(p1, p2))>>

\* The separation computed after the test of dvn: none for a pair that is
\* moving apart.
SeparationWhenApproaching(p1, p2) ==
    LET n == <<FDiv(p2.x - p1.x, FSqrt(FMul(p2.x - p1.x, p2.x - p1.x)
                                       + FMul(p2.y - p1.y, p2.y - p1.y))),
               FDiv(p2.y - p1.y, FSqrt(FMul(p2.x - p1.x, p2.x - p1.x)
                                       + FMul(p2.y - p1.y, p2.y - p1.y)))>>
        d == FSqrt(FMul(p2.x - p1.x, p2.x - p1.x) + FMul(p2.y - p1.y, p2.y - p1.y))
    IN  IF FMul(p2.vx - p1.vx, n[1]) + FMul(p2.vy - p1.vy, n[2]) > 0 THEN 0
        ELSE FMul(p1.radius + p2.radius - d, 500)

\* handle_collisions: separation = overlap * 0.5
Separation(p1, p2) == FMul(p1.radius + p2.radius - Distance(p1, p2), 500)

\* handle_collisions: dvn, the relative velocity along the normal.
RelativeNormalVelocity(p1, p2) ==
    LET n == Normal(p1, p2)
    IN  FMul(p2.vx - p1.vx, n[1]) + FMul(p2.vy - p1.vy, n[2])

\* The impulse without its factor 2.0.
ImpulseHalved(p1, p2) ==
    FMul(FDiv(RelativeNormalVelocity(p1, p2), p1.mass + p2.mass), restitution)

\* The impulse scaled by 1 + restitution on top of the factor 2.0.
ImpulseOverdriven(p1, p2) ==
    FMul(FDiv(FMul(2000, RelativeNormalVelocity(p1, p2)), p1.mass + p2.mass),
         Scale + restitution)

\* handle_collisions: impulse = 2.0 * dvn / total_mass * restitution
Impulse(p1, p2) ==
    FMul(FDiv(FMul(2000, RelativeNormalVelocity(p1, p2)), p1.mass + p2.mass),
         restitution)

\* The branches without the test of dvn: every colliding pair receives the
\* impulse.
PairBranchAlwaysImpulse(p1, p2) ==
    IF ~Colliding(p1, p2) THEN "skip" ELSE "impulse"

\* handle_collisions: the branch the body of the inner loop takes.
PairBranch(p1, p2) ==
    IF ~Colliding(p1, p2) THEN "skip"
    ELSE IF RelativeNormalVelocity(p1, p2) > 0 THEN "separate"
    ELSE "impulse"

\* handle_collisions: "Update positions to separate particles", p1 when
\* side = -1 and p2 when side = 1.
Separate(p, n, separation, side) ==
    [p EXCEPT !.x = p.x + side * FMul(n[1], separation),
              !.y = p.y + side * FMul(n[2], separation)]

\* handle_collisions: "Apply impulse to velocities", p1 with the mass of p2
\* when side = 1 and p2 with the mass of p1 when side = -1.
ApplyImpulse(p, n, impulse, other_mass, side) ==
    [p EXCEPT !.vx = p.vx + side * FMul(FMul(impulse, other_mass), n[1]),
              !.vy = p.vy + side * FMul(FMul(impulse, other_mass), n[2])]

\* handle_collisions: the body of the inner loop on the pair (a, b) of ps,
\* both counted from 0.
ResolvePair(ps, a, b) ==
    LET p1 == ps[a + 1]
        p2 == ps[b + 1]
        n  == Normal(p1, p2)
        s1 == Separate(p1, n, Separation(p1, p2), -1)
        s2 == Separate(p2, n, Separation(p1, p2), 1)
    IN  CASE PairBranch(p1, p2) = "skip" -> ps
          [] PairBranch(p1, p2) = "separate" ->
                [ps EXCEPT ![a + 1] = s1, ![b + 1] = s2]
          [] OTHER ->
                [ps EXCEPT
                   ![a + 1] = ApplyImpulse(s1, n, Impulse(p1, p2), p2.mass, 1),
                   ![b + 1] = ApplyImpulse(s2, n, Impulse(p1, p2), p1.mass, -1)]

\* update keeping the dt it was given as the new time_step.
update_stores_dt(dt) ==
    /\ Call("update", <<dt>>, 0)
    /\ actual_dt' = IF dt > 0 THEN dt ELSE time_step
    /\ time_step' = actual_dt'
    /\ entry' = particles
    /\ branch' = "none"
    /\ pc' = IF Len(particles) = 0 THEN "idle" ELSE "integrate"
    /\ i' = 0
    /\ j' = 0
    /\ UNCHANGED <<particles, width, height, gravity_x, gravity_y, damping, restitution>>

\* update clamping dt as set_time_step does.
update_clamped_dt(dt) ==
    /\ Call("update", <<dt>>, 0)
    /\ actual_dt' = IF dt > 0 THEN FMin(FMax(dt, 1), 100) ELSE time_step
    /\ entry' = particles
    /\ branch' = "none"
    /\ pc' = IF Len(particles) = 0 THEN "idle" ELSE "integrate"
    /\ i' = 0
    /\ j' = 0
    /\ UNCHANGED <<particles, params>>

\* ParticleSystem::update, entered: actual_dt is chosen and the first loop
\* is about to run.  With no particle every loop is empty and update returns.
update(dt) ==
    /\ Call("update", <<dt>>, 0)
    /\ actual_dt' = IF dt > 0 THEN dt ELSE time_step
    /\ entry' = particles
    /\ branch' = "none"
    /\ pc' = IF Len(particles) = 0 THEN "idle" ELSE "integrate"
    /\ i' = 0
    /\ j' = 0
    /\ UNCHANGED <<particles, params>>

\* update: one iteration of "Apply forces and integrate".
IntegrateStep ==
    /\ pc = "integrate"
    /\ particles' = [particles EXCEPT ![i + 1] = Integrate(@, actual_dt)]
    /\ IF i + 1 < Len(particles)
       THEN pc' = pc /\ i' = i + 1
       ELSE pc' = "boundary" /\ i' = 0
    /\ UNCHANGED <<params, actual_dt, j, entry, branch, last, calls>>

\* The boundary loop handing over to handle_collisions after its first
\* iteration.
BoundaryStepFirstOnly ==
    /\ pc = "boundary"
    /\ particles' = [particles EXCEPT ![i + 1] = Boundary(@)]
    /\ IF Len(particles) >= 2
       THEN pc' = "collide" /\ i' = 0 /\ j' = 1
       ELSE pc' = "idle" /\ i' = 0 /\ j' = 0
    /\ UNCHANGED <<params, actual_dt, entry, branch, last, calls>>

\* update: one iteration of "Handle boundary collisions"; after the last
\* one handle_collisions is called, whose loops are empty below two particles.
BoundaryStep ==
    /\ pc = "boundary"
    /\ particles' = [particles EXCEPT ![i + 1] = Boundary(@)]
    /\ IF i + 1 < Len(particles)
       THEN pc' = pc /\ i' = i + 1 /\ j' = j
       ELSE IF Len(particles) >= 2
       THEN pc' = "collide" /\ i' = 0 /\ j' = 1
       ELSE pc' = "idle" /\ i' = 0 /\ j' = 0
    /\ UNCHANGED <<params, actual_dt, entry, branch, last, calls>>

\* The particles as the boundary loop leaves them, from the particles update
\* was entered with.
AfterBoundary == [n \in 1 .. Len(entry) |-> Boundary(Integrate(entry[n], actual_dt))]

\* The inner loop resolving each pair as the boundary loop left it, not as
\* the pairs before it did.
CollideStepFromSnapshot ==
    /\ pc = "collide"
    /\ particles' = [particles EXCEPT
                        ![i + 1] = ResolvePair(AfterBoundary, i, j)[i + 1],
                        ![j + 1] = ResolvePair(AfterBoundary, i, j)[j + 1]]
    /\ branch' = PairBranch(AfterBoundary[i + 1], AfterBoundary[j + 1])
    /\ IF j + 1 < Len(particles)
       THEN pc' = pc /\ i' = i /\ j' = j + 1
       ELSE IF i + 2 < Len(particles)
       THEN pc' = pc /\ i' = i + 1 /\ j' = i + 2
       ELSE pc' = "idle" /\ i' = 0 /\ j' = 0
    /\ UNCHANGED <<params, actual_dt, entry, last, calls>>

\* handle_collisions: one iteration of the inner loop, on the pair (i, j);
\* after the last pair update returns.
CollideStep ==
    /\ pc = "collide"
    /\ particles' = ResolvePair(particles, i, j)
    /\ branch' = PairBranch(particles[i + 1], particles[j + 1])
    /\ IF j + 1 < Len(particles)
       THEN pc' = pc /\ i' = i /\ j' = j + 1
       ELSE IF i + 2 < Len(particles)
       THEN pc' = pc /\ i' = i + 1 /\ j' = i + 2
       ELSE pc' = "idle" /\ i' = 0 /\ j' = 0
    /\ UNCHANGED <<params, actual_dt, entry, last, calls>>

\* get_kinetic_energy: the sum over the first n particles of ps.
RECURSIVE KineticEnergy(_, _)
KineticEnergy(ps, n) ==
    IF n = 0 THEN 0
    ELSE LET particle == ps[n]
             speed_squared == FMul(particle.vx, particle.vx)
                              + FMul(particle.vy, particle.vy)
         IN  KineticEnergy(ps, n - 1)
             + FMul(FMul(500, particle.mass), speed_squared)

\* ParticleSystem::get_kinetic_energy
get_kinetic_energy == KineticEnergy(particles, Len(particles))

\* ------------------------------------------------------------ specification
Next ==
    \/ \E t \in AddInputs : add_particle(t[1], t[2], t[3], t[4], t[5], t[6])
    \/ \E g \in GravityInputs : set_gravity(g[1], g[2])
    \/ \E d \in UnitInputs : set_damping(d)
    \/ \E r \in UnitInputs : set_restitution(r)
    \/ \E dt \in TimeStepInputs : set_time_step(dt)
    \/ \E b \in BoundsInputs : set_bounds(b[1], b[2])
    \/ \E index \in IndexInputs, v \in VectorInputs :
            set_particle_position(index, v[1], v[2])
    \/ \E index \in IndexInputs, v \in VectorInputs :
            set_particle_velocity(index, v[1], v[2])
    \/ \E index \in IndexInputs, f \in VectorInputs :
            add_force_to_particle(index, f[1], f[2])
    \/ clear_particles
    \/ \E dt \in DtInputs : update(dt)
    \/ IntegrateStep
    \/ BoundaryStep
    \/ CollideStep

Spec == Init /\ [][Next]_vars

\* ------------------------------------------------------------ collisions
\* A second specification for the collision pass.  It starts from a system
\* already configured through the public calls (new, the setters and two or
\* three add_particle calls) and runs update on it.

\* add_particle arguments: a pair meeting head-on along the x axis (1, 2); a
\* pair meeting head-on along the direction (3, 4) (3, 4); a heavy wide disk
\* at rest that overlaps 1 and 2 (5); a disk driven into the
\* left wall (6) and one overlapping it and leaving it (7); two disks at rest one unit
\* apart (8, 9); a wider disk at the place of 6 with its velocity (10).  Centers are at the same place or at least 1.0 apart: the
\* direction of a shorter vector is lost at a resolution of 1/Scale, as it
\* is in f32 where dx * dx underflows.
SimInputs ==
    << <<40000, 50000, 10000, 0, 5000, 1000>>,
       <<48000, 50000, -10000, 0, 5000, 1000>>,
       <<60000, 70000, 6000, 8000, 5000, 1000>>,
       <<63000, 74000, -3000, -4000, 5000, 1000>>,
       <<44000, 52000, 0, 0, 8000, 3000>>,
       <<3000, 50000, -20000, 0, 5000, 1000>>,
       <<9000, 52000, 25000, 1000, 5000, 2000>>,
       <<50000, 20000, 0, 0, 5000, 1000>>,
       <<51000, 20000, 0, 0, 5000, 1000>>,
       <<3000, 50000, -20000, 0, 8000, 1000>> >>

SimParticle(n) ==
    LET t == SimInputs[n]
    IN  NewParticle(t[1], t[2], t[3], t[4], t[5], t[6])

\* The collections update is run on: every two of the particles above, in
\* both orders, alone and followed by the heavy disk.
SimCollections ==
    LET N == DOMAIN SimInputs
    IN  { <<SimParticle(a), SimParticle(b)>> : a \in N, b \in N }
        \cup { <<SimParticle(a), SimParticle(b), SimParticle(5)>> : a \in N, b \in N }

\* <<gravity_x, gravity_y, damping, restitution>>: the values of new, and
\* no gravity and no damping with four restitutions.
SimParams ==
    { <<0, FMul(9810, 10000), 990, 800>> }
    \cup { <<0, 0, Scale, r>> : r \in {0, 500, 800, Scale} }

\* update(dt): the stored time step, and the longest one it can hold.
SimDtInputs == { 0, 100 }

SimInit ==
    /\ particles \in SimCollections
    /\ width = 100000
    /\ height = 100000
    /\ \E c \in SimParams :
          /\ gravity_x = c[1]
          /\ gravity_y = c[2]
          /\ damping = c[3]
          /\ restitution = c[4]
    /\ time_step = FDiv(1000, 60000)
    /\ Idle
    /\ LET p == particles[Len(particles)]
       IN  last = [op |-> "add_particle",
                   args |-> <<p.x, p.y, p.vx, p.vy, p.radius, p.mass>>,
                   ret |-> Len(particles) - 1]
    /\ calls = 0

SimNext ==
    \/ \E dt \in SimDtInputs : update(dt)
    \/ IntegrateStep
    \/ BoundaryStep
    \/ CollideStep

SpecSim == SimInit /\ [][SimNext]_vars

\* ------------------------------------------------------------ claims
\* update has returned: the system is idle and update was the last call.
Returned == pc = "idle" /\ last.op = "update"

\* The disk of p lies within the world rectangle.
Contained(p) ==
    /\ p.radius <= p.x /\ p.x <= width - p.radius
    /\ p.radius <= p.y /\ p.y <= height - p.radius

\* The world is wide and high enough to hold the disk of p.
Fits(p) == 2 * p.radius <= width /\ 2 * p.radius <= height

\* C1: when update returns, every particle whose disk fits into the world
\* (2 * radius <= width and 2 * radius <= height) has
\* radius <= x <= width - radius and radius <= y <= height - radius.
C1_BoundaryContainment ==
    Returned =>
        \A n \in 1 .. Len(particles) : Fits(particles[n]) => Contained(particles[n])

\* The value of lo..hi nearest to v.
Nearest(v, lo, hi) == IF v < lo THEN lo ELSE IF v > hi THEN hi ELSE v

\* C2: damping and restitution are always within [0, 1] and time_step within
\* [0.001, 0.1], and a setter stores the value of the range nearest to its
\* argument, whatever the argument.
C2_ParametersClamped ==
    /\ 0 <= damping /\ damping <= Scale
    /\ 0 <= restitution /\ restitution <= Scale
    /\ 1 <= time_step /\ time_step <= 100
    /\ last.op = "set_damping" => damping = Nearest(last.args[1], 0, Scale)
    /\ last.op = "set_restitution" => restitution = Nearest(last.args[1], 0, Scale)
    /\ last.op = "set_time_step" => time_step = Nearest(last.args[1], 1, 100)

\* set_damping(-1.0) has stored 0.0.
C2_Witness == last.op = "set_damping" /\ last.args[1] = -1000 /\ damping = 0

\* C3: the stored width and height are always at least 100, and get_bounds
\* returns [0, 0, width, height].
C3_MinimumBounds ==
    /\ width >= 100000
    /\ height >= 100000
    /\ get_bounds = <<0, 0, width, height>>

\* The step is the public call op (of which last' holds the arguments).
CallMade(op) == calls' = calls + 1 /\ last'.op = op

\* The step belongs to update: it is the call, or it runs one of its loops.
UpdateStep == CallMade("update") \/ pc # "idle"

\* C4: add_particle appends one particle holding its arguments as given,
\* returns the length the collection had before, raises get_particle_count by
\* one and changes no other particle and no parameter; after clear_particles
\* it returns 0.
C4_AddParticle ==
    [][CallMade("add_particle") =>
        /\ last'.ret = get_particle_count
        /\ Len(particles') = get_particle_count + 1
        /\ \A n \in 1 .. Len(particles) : particles'[n] = particles[n]
        /\ LET p == particles'[Len(particles')]
               a == last'.args
           IN  /\ <<p.x, p.y, p.vx, p.vy, p.radius, p.mass>> = a
               /\ p.color = White
        /\ UNCHANGED params
        /\ (last.op = "clear_particles" => last'.ret = 0)]_vars

\* add_particle has appended a second particle and returned 1.
C4_Witness ==
    /\ last.op = "add_particle"
    /\ last.ret = 1
    /\ Len(particles) = 2
    /\ particles[2].x = last.args[1]

\* C5: update integrates with dt when dt > 0, even outside [0.001, 0.1], and
\* with the stored time_step otherwise, and leaves time_step as it was.
C5_UpdateTimeStep ==
    [][UpdateStep =>
        LET dt == IF last'.args[1] > 0 THEN last'.args[1] ELSE time_step
        IN  /\ time_step' = time_step
            /\ pc' # "idle" => actual_dt' = dt
            /\ pc = "integrate" =>
                  LET p == particles[i + 1]
                      q == particles'[i + 1]
                  IN  /\ q.vx = FMul(p.vx + FMul(gravity_x, dt), damping)
                      /\ q.vy = FMul(p.vy + FMul(gravity_y, dt), damping)
                      /\ q.x = p.x + FMul(q.vx, dt)
                      /\ q.y = p.y + FMul(q.vy, dt)]_vars

\* update(0.5) has integrated its particles with 0.5.
C5_Witness ==
    /\ last.op = "update"
    /\ last.args[1] = 500
    /\ pc = "boundary"
    /\ particles # entry

\* C6: update changes only positions and velocities: the number of
\* particles, the radius, mass and color at each index and every parameter
\* stay as they were, and on an empty collection nothing changes.
C6_UpdateFrame ==
    [][UpdateStep =>
        /\ Len(particles') = Len(particles)
        /\ \A n \in 1 .. Len(particles) :
              /\ particles'[n].radius = particles[n].radius
              /\ particles'[n].mass = particles[n].mass
              /\ particles'[n].color = particles[n].color
        /\ UNCHANGED params
        /\ (Len(particles) = 0 => particles' = particles /\ pc' = "idle")]_vars

\* update has returned after moving two particles of different mass.
C6_Witness ==
    /\ Returned
    /\ Len(particles) = 2
    /\ particles[1].mass # particles[2].mass
    /\ particles[1].x # entry[1].x
    /\ particles[2].y # entry[2].y

\* C7: with index >= get_particle_count, set_particle_position,
\* set_particle_velocity and add_force_to_particle change no particle and no
\* parameter.
C7_OutOfRangeIndex ==
    [][(/\ calls' = calls + 1
        /\ last'.op \in {"set_particle_position", "set_particle_velocity",
                          "add_force_to_particle"}
        /\ last'.args[1] >= get_particle_count)
       => UNCHANGED <<particles, params>>]_vars

\* set_particle_position was called with the index one past the last particle.
C7_Witness ==
    /\ last.op = "set_particle_position"
    /\ Len(particles) > 0
    /\ last.args[1] = Len(particles)

\* The pair (i, j) that handle_collisions is about to process overlaps:
\* 0 < d < radius_i + radius_j.
PairOverlaps == pc = "collide" /\ Colliding(particles[i + 1], particles[j + 1])

\* a and b differ by at most Tol units.
Near(a, b) == Abs(a - b) <= Tol

\* The velocity of p lies along the line through the centers of p1 and p2.
AlongCenters(p, p1, p2) == p.vx * (p2.y - p1.y) = p.vy * (p2.x - p1.x)

\* p1 and p2 approach each other: the relative velocity of p2 points from
\* p2 towards p1.
Approaching(p1, p2) ==
    (p2.vx - p1.vx) * (p2.x - p1.x) + (p2.vy - p1.vy) * (p2.y - p1.y) < 0

\* C8: with restitution 1, gravity (0, 0) and damping 1, when two particles of
\* equal mass that approach head-on along the line of their centers overlap,
\* the collision leaves each with the velocity the other had before it.  The
\* approach is that of the moment the pair is processed, after integration
\* and boundary handling.
C8_ElasticExchange ==
    [][(/\ PairOverlaps
        /\ restitution = Scale /\ gravity_x = 0 /\ gravity_y = 0 /\ damping = Scale
        /\ particles[i + 1].mass = particles[j + 1].mass
        /\ AlongCenters(particles[i + 1], particles[i + 1], particles[j + 1])
        /\ AlongCenters(particles[j + 1], particles[i + 1], particles[j + 1])
        /\ Approaching(particles[i + 1], particles[j + 1]))
       => /\ Near(particles'[i + 1].vx, particles[j + 1].vx)
          /\ Near(particles'[i + 1].vy, particles[j + 1].vy)
          /\ Near(particles'[j + 1].vx, particles[i + 1].vx)
          /\ Near(particles'[j + 1].vy, particles[i + 1].vy)]_vars

\* update has returned after the two particles that met head-on along the
\* direction (3, 4) exchanged their velocities (6, 8) and (-3, -4).
C8_Witness ==
    /\ Returned
    /\ branch = "impulse"
    /\ restitution = Scale /\ gravity_y = 0 /\ damping = Scale
    /\ Len(particles) = 2
    /\ <<entry[1].vx, entry[1].vy>> = <<6000, 8000>>
    /\ <<entry[2].vx, entry[2].vy>> = <<-3000, -4000>>
    /\ Near(particles[1].vx, -3000) /\ Near(particles[1].vy, -4000)
    /\ Near(particles[2].vx, 6000) /\ Near(particles[2].vy, 8000)

\* C9: with restitution < 1, gravity (0, 0), damping 1 and positive masses,
\* the total kinetic energy when update returns is at most the total kinetic
\* energy when it was entered.
C9_EnergyNonIncrease ==
    (/\ Returned
     /\ restitution < Scale /\ gravity_x = 0 /\ gravity_y = 0 /\ damping = Scale
     /\ \A n \in 1 .. Len(particles) : particles[n].mass > 0)
    => get_kinetic_energy <= KineticEnergy(entry, Len(entry))

\* update has returned after an impulse that took kinetic energy away.
C9_Witness ==
    /\ Returned
    /\ branch = "impulse"
    /\ restitution < Scale /\ gravity_x = 0 /\ gravity_y = 0 /\ damping = Scale
    /\ get_kinetic_energy < KineticEnergy(entry, Len(entry))

\* The particle moved from p to q went half of overlap against the direction
\* (dx, dy), of length d: twice its displacement is -overlap * (dx, dy) / d,
\* here multiplied out by d.
HalfOverlapAgainst(p, q, dx, dy, d, overlap) ==
    /\ Abs(2 * d * (q.x - p.x) + overlap * dx) <= Tol * d
    /\ Abs(2 * d * (q.y - p.y) + overlap * dy) <= Tol * d

\* C10: when an overlapping pair (i, j) is processed, whatever the masses and
\* whether or not the two approach, i is moved by half the overlap against
\* the normal and j by half the overlap along it, after which the distance of
\* the centers is radius_i + radius_j.
C10_OverlapSeparation ==
    [][PairOverlaps =>
        LET p1 == particles[i + 1]
            p2 == particles[j + 1]
            q1 == particles'[i + 1]
            q2 == particles'[j + 1]
            d  == Distance(p1, p2)
            overlap == p1.radius + p2.radius - d
        IN  /\ HalfOverlapAgainst(p1, q1, p2.x - p1.x, p2.y - p1.y, d, overlap)
            /\ HalfOverlapAgainst(p2, q2, p1.x - p2.x, p1.y - p2.y, d, overlap)
            /\ Near(Distance(q1, q2), p1.radius + p2.radius)]_vars

\* update has returned after separating two particles of different mass that
\* were moving apart.
C10_Witness ==
    /\ Returned
    /\ branch = "separate"
    /\ Len(particles) = 2
    /\ particles[1].mass # particles[2].mass
    /\ Near(Distance(particles[1], particles[2]),
            particles[1].radius + particles[2].radius)

\* The collision pass is entered by this step.
PassBegins == pc # "collide" /\ pc' = "collide"

\* C11: when the collision pass begins, every particle has been integrated
\* and then clamped: the step that enters the pass is the last iteration of
\* the boundary loop, every particle is the boundary handling of the
\* integration of the particle update was entered with, and every particle
\* whose disk fits into the world lies within it; a pair is examined only
\* inside the pass.
C11_PhasesBeforeCollisions ==
    [][/\ PassBegins =>
            /\ pc = "boundary"
            /\ i + 1 = Len(particles)
            /\ <<i', j'>> = <<0, 1>>
            /\ \A n \in 1 .. Len(particles) :
                  /\ particles'[n] = Boundary(Integrate(entry[n], actual_dt))
                  /\ Fits(particles'[n]) => Contained(particles'[n])
       /\ (branch' # branch /\ branch' # "none") => pc = "collide"]_vars

\* The collision pass is about to begin after the boundary loop has put the
\* second particle back into the world.
C11_Witness ==
    /\ pc = "collide" /\ i = 0 /\ j = 1
    /\ particles[2] # Integrate(entry[2], actual_dt)
    /\ Fits(particles[2]) /\ Contained(particles[2])
    /\ ~Contained(Integrate(entry[2], actual_dt))

\* The particles ps as the collision pass has made them when it reaches the
\* pair (a, b), both counted from 0: the pairs before it are (a, a + 1) ..
\* (a, b - 1) and, before these, all the pairs of a - 1.
RECURSIVE BeforePair(_, _, _)
BeforePair(ps, a, b) ==
    IF b > a + 1 THEN ResolvePair(BeforePair(ps, a, b - 1), a, b - 1)
    ELSE IF a > 0 THEN ResolvePair(BeforePair(ps, a - 1, Len(ps) - 1), a - 1, Len(ps) - 1)
    ELSE ps

\* Particle n (counted from 1) touched no other particle in this update:
\* every pair it belongs to was skipped when the pass reached it.
TouchedNoParticle(n) ==
    \A m \in (1 .. Len(entry)) \ {n} :
        LET a == (IF n < m THEN n ELSE m) - 1
            b == (IF n < m THEN m ELSE n) - 1
            ps == BeforePair(AfterBoundary, a, b)
        IN  ~Colliding(ps[a + 1], ps[b + 1])

\* p after gravity, then damping, then the advance of the position with the
\* new velocity.
Advanced(p, dt) ==
    LET vx == FMul(p.vx + FMul(gravity_x, dt), damping)
        vy == FMul(p.vy + FMul(gravity_y, dt), damping)
    IN  [p EXCEPT !.vx = vx, !.vy = vy,
                  !.x = p.x + FMul(vx, dt), !.y = p.y + FMul(vy, dt)]

\* The disk of p crosses no edge of the world.
TouchesNoBoundary(p) ==
    /\ p.x - p.radius >= 0 /\ p.x + p.radius <= width
    /\ p.y - p.radius >= 0 /\ p.y + p.radius <= height

\* C12: an iteration of the integration loop gives its particle the velocity
\* v' = (v + gravity * dt) * damping and the position p + v' * dt and leaves
\* the other particles alone; when update returns, a particle that touched no
\* boundary and no other particle differs from the one update was entered
\* with by exactly this.
C12_Integration ==
    [][/\ pc = "integrate" =>
            \A n \in 1 .. Len(particles) :
                particles'[n] = IF n = i + 1 THEN Advanced(particles[n], actual_dt)
                                ELSE particles[n]
       /\ (pc # "idle" /\ pc' = "idle") =>
            \A n \in 1 .. Len(particles) :
                (/\ TouchesNoBoundary(Advanced(entry[n], actual_dt))
                 /\ TouchedNoParticle(n))
                => particles'[n] = Advanced(entry[n], actual_dt)]_vars

\* update has returned after gravity and damping moved the first of two
\* particles, which touched neither a boundary nor the other particle.
C12_Witness ==
    /\ Returned
    /\ Len(particles) = 2
    /\ gravity_y # 0 /\ damping # Scale /\ damping # 0
    /\ TouchesNoBoundary(Advanced(entry[1], actual_dt))
    /\ TouchedNoParticle(1)
    /\ particles[1] = Advanced(entry[1], actual_dt)
    /\ particles[1].vy # entry[1].vy
    /\ particles[1].y # entry[1].y

\* p and q are at the same place with the same velocity.
Coincident(p, q) == <<p.x, p.y, p.vx, p.vy>> = <<q.x, q.y, q.vx, q.vy>>

\* The pair (i, j) about to be processed is not one the pass resolves: its
\* centers coincide, or lie at least radius_i + radius_j apart.
PairOutOfReach ==
    /\ pc = "collide"
    /\ LET p1 == particles[i + 1]
           p2 == particles[j + 1]
           dx == p2.x - p1.x
           dy == p2.y - p1.y
           min_distance == p1.radius + p2.radius
       IN  \/ dx = 0 /\ dy = 0
           \/ Distance(p1, p2) >= min_distance

\* The second sentence of C13 as it is written, in a system of two
\* particles: if they coincide with equal velocities when update is entered
\* they coincide when it returns.
C13_CoincidentStay ==
    (Returned /\ Len(particles) = 2) =>
        \A n, m \in 1 .. Len(particles) :
            Coincident(entry[n], entry[m]) => Coincident(particles[n], particles[m])

\* C13: processing a pair whose centers coincide, or lie at least
\* radius_i + radius_j apart, changes no particle; and two particles that
\* coincide with equal velocities when update is entered coincide when it
\* returns, provided that they have the same radius or touch no boundary and
\* that no third particle overlaps either of them in the pass.
C13_SkippedPair ==
    [][/\ PairOutOfReach => particles' = particles /\ branch' = "skip"
       /\ (pc # "idle" /\ pc' = "idle") =>
            \A n, m \in 1 .. Len(particles) :
                (/\ Coincident(entry[n], entry[m])
                 /\ \/ entry[n].radius = entry[m].radius
                    \/ /\ TouchesNoBoundary(Advanced(entry[n], actual_dt))
                       /\ TouchesNoBoundary(Advanced(entry[m], actual_dt))
                 /\ TouchedNoParticle(n)
                 /\ TouchedNoParticle(m))
                => Coincident(particles'[n], particles'[m])]_vars

\* update has returned after skipping its only pair, two coincident
\* particles that it moved and that still coincide.
C13_Witness ==
    /\ Returned
    /\ Len(particles) = 2
    /\ branch = "skip"
    /\ Coincident(entry[1], entry[2])
    /\ Coincident(particles[1], particles[2])
    /\ particles[1].x # entry[1].x

\* The velocity of q is that of p.
SameVelocity(p, q) == q.vx = p.vx /\ q.vy = p.vy

\* C14: when an overlapping pair with dvn > 0 is processed both velocities
\* stay as they were while both positions are moved apart by half the
\* overlap; when dvn <= 0 the velocities receive the impulse
\* 2 * dvn / (mass_i + mass_j) * restitution, i times mass_j along the normal
\* and j times mass_i against it.
C14_SeparatingPair ==
    [][PairOverlaps =>
        LET p1 == particles[i + 1]
            p2 == particles[j + 1]
            q1 == particles'[i + 1]
            q2 == particles'[j + 1]
            dx == p2.x - p1.x
            dy == p2.y - p1.y
            d  == FSqrt(FMul(dx, dx) + FMul(dy, dy))
            nx == FDiv(dx, d)
            ny == FDiv(dy, d)
            dvn == FMul(p2.vx - p1.vx, nx) + FMul(p2.vy - p1.vy, ny)
            impulse == FMul(FDiv(FMul(2000, dvn), p1.mass + p2.mass), restitution)
        IN  IF dvn > 0
            THEN /\ SameVelocity(p1, q1)
                 /\ SameVelocity(p2, q2)
                 /\ HalfOverlapAgainst(p1, q1, dx, dy, d, p1.radius + p2.radius - d)
                 /\ HalfOverlapAgainst(p2, q2, -dx, -dy, d, p1.radius + p2.radius - d)
                 /\ <<q1.x, q1.y>> # <<p1.x, p1.y>>
                 /\ <<q2.x, q2.y>> # <<p2.x, p2.y>>
            ELSE /\ q1.vx = p1.vx + FMul(FMul(impulse, p2.mass), nx)
                 /\ q1.vy = p1.vy + FMul(FMul(impulse, p2.mass), ny)
                 /\ q2.vx = p2.vx - FMul(FMul(impulse, p1.mass), nx)
                 /\ q2.vy = p2.vy - FMul(FMul(impulse, p1.mass), ny)]_vars

\* update has returned after processing two overlapping particles that were
\* moving apart: they have the velocities the boundary loop left and other
\* positions.
C14_Witness ==
    /\ Returned
    /\ branch = "separate"
    /\ Len(particles) = 2
    /\ restitution > 0
    /\ \A n \in 1 .. 2 :
          /\ SameVelocity(AfterBoundary[n], particles[n])
          /\ particles[n].x # AfterBoundary[n].x
    /\ particles[1].vx # particles[2].vx

\* C15: the pass processes the pairs (i, j), i < j, one after the other from
\* (0, 1), ascending in j and then in i, and returns after the pair
\* (count - 2, count - 1); the particles a pair is resolved from are those
\* left by the pairs before it, and the pair writes into them.
C15_PairOrderInPlace ==
    [][/\ pc = "collide" =>
            /\ 0 <= i /\ i < j /\ j < Len(particles)
            /\ \A n \in 1 .. Len(particles) :
                  particles[n] = BeforePair(AfterBoundary, i, j)[n]
            /\ particles' = ResolvePair(particles, i, j)
            /\ IF pc' = "collide"
               THEN <<i', j'>> = IF j + 1 < Len(particles) THEN <<i, j + 1>>
                                 ELSE <<i + 1, i + 2>>
               ELSE /\ pc' = "idle"
                    /\ <<i, j>> = <<Len(particles) - 2, Len(particles) - 1>>
       /\ PassBegins => <<i', j'>> = <<0, 1>>]_vars

\* The pass has resolved the pair (0, 1) and is about to resolve the pair
\* (0, 2), whose overlap is no longer the one the boundary loop left.
C15_Witness ==
    /\ pc = "collide" /\ <<i, j>> = <<0, 2>>
    /\ particles[1] # AfterBoundary[1]
    /\ Colliding(particles[1], particles[3])
    /\ Colliding(AfterBoundary[1], AfterBoundary[3])
    /\ Separation(particles[1], particles[3])
          # Separation(AfterBoundary[1], AfterBoundary[3])
    /\ ResolvePair(particles, 0, 2)[3] # ResolvePair(AfterBoundary, 0, 2)[3]

\* C16: add_force_to_particle with index < get_particle_count adds
\* fx / mass * time_step to vx and fy / mass * time_step to vy of the particle
\* at index, with the stored time_step whatever dt update was last given, and
\* changes nothing else of it, no other particle and no parameter.
C16_AddForce ==
    [][(CallMade("add_force_to_particle") /\ last'.args[1] < get_particle_count) =>
        LET index == last'.args[1]
            fx == last'.args[2]
            fy == last'.args[3]
            p  == particles[index + 1]
        IN  /\ Len(particles') = Len(particles)
            /\ \A n \in 1 .. Len(particles) :
                  particles'[n] =
                     IF n = index + 1
                     THEN [p EXCEPT !.vx = p.vx + FMul(FDiv(fx, p.mass), time_step),
                                    !.vy = p.vy + FMul(FDiv(fy, p.mass), time_step)]
                     ELSE particles[n]
            /\ UNCHANGED params]_vars

\* add_force_to_particle(0, fx, fy) was called after update(0.5) on a single
\* particle, whose velocity it raised by the force over the mass times the
\* stored time_step and not times 0.5.
C16_Witness ==
    /\ last.op = "add_force_to_particle"
    /\ last.args[1] = 0
    /\ Len(particles) = 1
    /\ Len(entry) = 1
    /\ actual_dt = 500
    /\ time_step # actual_dt
    /\ LET before == AfterBoundary[1]
           ax == FDiv(last.args[2], before.mass)
       IN  /\ particles[1].vx = before.vx + FMul(ax, time_step)
           /\ particles[1].vx # before.vx + FMul(ax, actual_dt)
           /\ particles[1].vx # before.vx
           /\ particles[1].x = before.x

\* C17: when an approaching overlapping pair (dvn < 0) is processed with
\* restitution e, the relative velocity along the collision normal after the
\* impulse is -e times the one before it; with e = 0 it is zero.
C17_Restitution ==
    [][PairOverlaps =>
        LET p1 == particles[i + 1]
            p2 == particles[j + 1]
            q1 == particles'[i + 1]
            q2 == particles'[j + 1]
            n  == Normal(p1, p2)
            before == FMul(p2.vx - p1.vx, n[1]) + FMul(p2.vy - p1.vy, n[2])
            after  == FMul(q2.vx - q1.vx, n[1]) + FMul(q2.vy - q1.vy, n[2])
        IN  before < 0 => Near(after, -FMul(restitution, before))]_vars

\* C18: every particle of the system has the color 0xFFFFFF, and get_colors
\* returns get_particle_count values, all 0xFFFFFF, one for each index.
C18_ColorsWhite ==
    /\ \A n \in 1 .. Len(particles) : particles[n].color = White
    /\ DOMAIN get_colors = 1 .. get_particle_count
    /\ \A n \in 1 .. get_particle_count : get_colors[n] = White

\* Two particles were added and update has returned after changing their
\* positions and velocities: get_colors returns 0xFFFFFF twice.
C18_Witness ==
    /\ Returned
    /\ get_particle_count = 2
    /\ particles # entry
    /\ entry[1].vx # particles[1].vx
    /\ get_colors[1] = White /\ get_colors[2] = White

====
